---------------------------- MODULE Spec2Model ----------------------------
(***************************************************************************)
(* A model of the DSP functions of cpal_playbook (src/src/fx.rs, dsp.rs,   *)
(* filters.rs, eq.rs).                                                     *)
(*                                                                         *)
(* Samples and parameters are f32 in the source.  They are modelled as     *)
(* exact rationals [n, d] (d > 0, lowest terms); d = 0 stands for the      *)
(* non-finite values (n = 1: +inf, n = -1: -inf, n = 0: NaN).  Rounding    *)
(* of f32 arithmetic is outside the model: every statement below is about  *)
(* the arithmetic the code writes down, carried out exactly.               *)
(*                                                                         *)
(* Every function of the source is a call: a caller invokes it on a block  *)
(* (status "running"), loops of the stateful effects run one iteration     *)
(* per step, and the call ends "returned" or "panicked" (a Rust panic:     *)
(* index out of bounds, arithmetic overflow, allocation failure).          *)
(* A continuous signal may be delivered as two consecutive blocks, the     *)
(* function being invoked once per block with the same parameters.         *)
(***************************************************************************)
EXTENDS Integers, Sequences, FiniteSets, TLC

VARIABLES fn, status, args, signal, rest, out, block, samples, pos,
          delay_buffer, delay_index, delay_lines, indices, lfo_phase,
          gain, filters, result, panic, filter

vars == <<fn, status, args, signal, rest, out, block, samples, pos,
          delay_buffer, delay_index, delay_lines, indices, lfo_phase,
          gain, filters, result, panic, filter>>

\* the locals of delay_effect / flanger_effect and of reverb_effect
delayVars == <<delay_buffer, delay_index, lfo_phase>>

reverbVars == <<delay_lines, indices>>

\* the local of compressor and the local of equalizer
gainVars == <<gain, filters>>

\* what a call of a stateless function leaves alone
effectVars ==
    <<signal, rest, out, block, samples, pos, delayVars, reverbVars, gainVars>>

-----------------------------------------------------------------------------
(* Bounds of the model *)

MaxLen == 3        \* longest signal drawn for delay_effect and flanger_effect

MaxReverbLen == 3  \* longest signal drawn for reverb_effect

MaxFilterLen == 3  \* longest buffer drawn for the filters and dsp.rs

MaxStereoLen == 2  \* longest channel drawn for mid/side

MaxRate == 4       \* resample: the rates are 1..MaxRate

MaxBiquadLen == 2  \* samples put through a constructed BiquadFilter

MaxBands == 2      \* equalizer: most bands drawn

-----------------------------------------------------------------------------
(* Exact rational arithmetic standing for f32 arithmetic *)

Abs(k) == IF k < 0 THEN -k ELSE k

Sgn(k) == IF k < 0 THEN -1 ELSE IF k > 0 THEN 1 ELSE 0

RECURSIVE GCD(_, _)
GCD(a, b) == IF b = 0 THEN a ELSE GCD(b, a % b)

Norm(n, d) ==
    IF d = 0 THEN [n |-> Sgn(n), d |-> 0]
    ELSE LET g == GCD(Abs(n), Abs(d))
             s == Sgn(d)
         IN  [n |-> (s * n) \div g, d |-> (s * d) \div g]

Z(k) == [n |-> k, d |-> 1]

NaN == [n |-> 0, d |-> 0]

RAdd(a, b) ==
    IF a.d = 0 /\ b.d = 0 THEN (IF a.n = b.n THEN a ELSE NaN)
    ELSE Norm(a.n * b.d + b.n * a.d, a.d * b.d)

RNeg(a) == [n |-> -(a.n), d |-> a.d]

RSub(a, b) == RAdd(a, RNeg(b))

RMul(a, b) == Norm(a.n * b.n, a.d * b.d)

RDiv(a, b) == RMul(a, Norm(b.d, b.n))

\* a < b; false when either is NaN
RLt(a, b) ==
    /\ a # NaN
    /\ b # NaN
    /\ \/ a.n * b.d < b.n * a.d
       \/ (a.d = 0 /\ b.d = 0 /\ a.n < b.n)

RAbs(a) == [n |-> Abs(a.n), d |-> a.d]

\* `x as usize`: truncation toward zero, negative values and NaN give 0
AsUsize(a) == IF a.d = 0 \/ a.n < 0 THEN 0 ELSE a.n \div a.d

\* f32::round: to nearest, halves away from zero
Round(a) ==
    IF a.n >= 0 THEN (2 * a.n + a.d) \div (2 * a.d)
    ELSE -((2 * (-(a.n)) + a.d) \div (2 * a.d))

Zeros(k) == [j \in 1..k |-> Z(0)]

SeqsUpTo(k, S) == UNION {[1..m -> S] : m \in 0..k}

Ints(s) == [j \in 1..Len(s) |-> Z(s[j])]

-----------------------------------------------------------------------------
(* Inputs *)

SampleValues == {Z(0), Z(1), Z(-1)}

Signals == SeqsUpTo(MaxLen, SampleValues) \cup {Ints(<<1, 2, 3, 4, 5>>)}

SampleRates == {Z(500), Z(1000)}

DelayTimes == {Z(0), Z(1), Z(2), Z(3), Z(4)}

Feedbacks == {Z(0), Norm(1, 2)}

Mixes == {Norm(1, 2), Z(1)}

LfoRates == {Z(0), Z(125), Z(250), Z(375)}

FlangerSignals == SeqsUpTo(MaxLen, {Z(0), Z(1)})

ReverbRates == {Z(30), Z(100), Z(1000), Z(44100), Z(48000)}

\* at the audio rates the delay lines hold some 1900 samples each: one
\* sample is enough to see them allocated and written
ReverbSignals(sample_rate) ==
    IF RLt(Z(1000), sample_rate) THEN {<<>>, <<Z(1)>>}
    ELSE SeqsUpTo(MaxReverbLen, {Z(0), Z(1)})

FilterSignals == SeqsUpTo(MaxFilterLen, {Z(0), Z(1)})

FilterRates == {Z(1000)}

\* 2 * PI * cutoff_freq
AngularCutoffs == {Z(0), Z(1000), Z(3000)}

ConvolveSignals == SeqsUpTo(MaxFilterLen, {Z(0), Z(1), Z(-1)})

ResampleSignals ==
    SeqsUpTo(MaxFilterLen, {Z(0), Z(1)}) \cup {Ints(<<0, 1, 2, 3>>)}

NormalizeSignals ==
    SeqsUpTo(MaxFilterLen, {Z(0), Z(1), Z(-1), Z(2), Z(-3), Norm(1, 2)})

StereoSignals == SeqsUpTo(MaxStereoLen, {Z(0), Z(1), Z(-1)})

BiquadRates == {Z(0), Z(4), Z(-4)}

BiquadFreqs == {Z(0), Z(1), Z(2), Z(3)}

BiquadQs == {Z(0), Z(1), Norm(1, 2), Z(-1)}

BiquadSlopes == {Z(0), Z(2), Norm(1, 2), Z(-1)}

BiquadGains == {Z(0), Z(40), Z(-40)}

CompressorSignals == SeqsUpTo(MaxLen, {Z(0), Z(1), Z(-2)})

Thresholds == {Z(0), Z(1)}

Ratios == {Z(1), Z(2)}

\* attack_ms * ln 2 and release_ms * ln 2
AttackTimes == {Z(0), Z(1)}

ReleaseTimes == {Z(1), Norm(1, 2)}

CompressorRates == {Z(1000)}

EqualizerRates == {Z(4)}

\* eq.rs:1-5; at sample rate 4 these bands have whole coefficients
\* (output = 34 * input - 33 * z2 and 67 * input - 66 * z2)
EQBand ==
    [frequency : {Z(1)}, gain_db : {Z(40)}, q_factor : {Norm(1, 10), Norm(1, 40)}]

EqualizerBands == SeqsUpTo(MaxBands, EQBand)

\* the places where a signal of length k is cut into two blocks;
\* k itself means the signal is delivered as one block
Cuts(x) == IF Len(x) = 0 THEN {0} ELSE 1..Len(x)

-----------------------------------------------------------------------------
(* fx.rs: delay_effect *)

\* fx.rs:2  (sample_rate * delay_time_ms / 1000.0) as usize
DelaySamples(sample_rate, time_ms) ==
    AsUsize(RDiv(RMul(sample_rate, time_ms), Z(1000)))

\* a delay that adds the dry input to its output (a dry+wet mix)
delay_effect_step_mix(buf, idx, sample, feedback) ==
    LET delayed_sample == buf[idx + 1]
        new_sample == RAdd(sample, RMul(delayed_sample, feedback))
    IN  [buf |-> [buf EXCEPT ![idx + 1] = new_sample],
         idx |-> (idx + 1) % Len(buf),
         y   |-> RAdd(sample, delayed_sample)]

\* fx.rs:7-11, one iteration of the loop over a non-empty delay buffer
delay_effect_step(buf, idx, sample, feedback) ==
    LET delayed_sample == buf[idx + 1]
        new_sample == RAdd(sample, RMul(delayed_sample, feedback))
    IN  [buf |-> [buf EXCEPT ![idx + 1] = new_sample],
         idx |-> (idx + 1) % Len(buf),
         y   |-> delayed_sample]

\* fx.rs:6-12, the loop over a whole slice (buf non-empty)
RECURSIVE delay_effect_run(_, _, _, _)
delay_effect_run(buf, idx, xs, feedback) ==
    IF xs = <<>> THEN <<>>
    ELSE LET s == delay_effect_step(buf, idx, Head(xs), feedback)
         IN  <<s.y>> \o delay_effect_run(s.buf, s.idx, Tail(xs), feedback)

\* fx.rs:1-13, what one call on the slice xs leaves in it
delay_effect(xs, a) ==
    delay_effect_run(Zeros(DelaySamples(a.sample_rate, a.delay_time_ms)), 0, xs,
                     a.feedback)

\* fx.rs:2-4, the locals of a call of delay_effect
DelayEnter(a) ==
    /\ delay_buffer' = Zeros(DelaySamples(a.sample_rate, a.delay_time_ms))
    /\ delay_index' = 0
    /\ UNCHANGED <<lfo_phase, delay_lines, indices, gainVars>>

-----------------------------------------------------------------------------
(* fx.rs: reverb_effect *)

\* fx.rs:17
delay_times == <<29, 37, 41, 43>>

\* fx.rs:20  (sample_rate * t as f32 / 1000.0) as usize
ReverbLength(sample_rate, t) ==
    AsUsize(RDiv(RMul(sample_rate, Z(t)), Z(1000)))

\* fx.rs:18-22, the locals of a call of reverb_effect
ReverbEnter(a) ==
    /\ delay_lines' = [j \in 1..Len(delay_times) |->
                         Zeros(ReverbLength(a.sample_rate, delay_times[j]))]
    /\ indices' = [j \in 1..Len(delay_times) |-> 0]
    /\ UNCHANGED <<delayVars, gainVars>>

RECURSIVE RSum(_)
RSum(s) == IF s = <<>> THEN Z(0) ELSE RAdd(Head(s), RSum(Tail(s)))

\* fx.rs:25-33, one iteration of the outer loop, no delay line being empty
reverb_effect_step(lines, idxs, sample, room_size, damping) ==
    LET delayed == [j \in 1..Len(lines) |-> lines[j][idxs[j] + 1]]
        reverberated == RSum(delayed)
    IN  [lines |-> [j \in 1..Len(lines) |->
                      [lines[j] EXCEPT ![idxs[j] + 1] =
                          RAdd(sample, RMul(delayed[j], damping))]],
         idxs  |-> [j \in 1..Len(lines) |-> (idxs[j] + 1) % Len(lines[j])],
         y     |-> RAdd(RMul(sample, RSub(Z(1), room_size)),
                        RMul(reverberated, room_size))]

-----------------------------------------------------------------------------
(* fx.rs: flanger_effect.  The LFO phase is kept in quarter turns (units   *)
(* of pi/2), where sin is rational; the inputs are drawn so that           *)
(* lfo_increment = 2*pi*rate_hz/sample_rate is a whole number of them.     *)

\* lfo_increment in quarter turns: fx.rs:129
LfoQuarters(sample_rate, rate_hz) == RDiv(RMul(Z(4), rate_hz), sample_rate)

\* sin of q quarter turns
SinQ(q) == Z(<<0, 1, 0, -1>>[(q % 4) + 1])

\* fx.rs:125-130, the locals of a call of flanger_effect
FlangerEnter(a) ==
    /\ delay_buffer' = Zeros(DelaySamples(a.sample_rate, a.depth_ms))
    /\ delay_index' = 0
    /\ lfo_phase' = 0
    /\ UNCHANGED <<reverbVars, gainVars>>

\* fx.rs:133-134
CurrentDelay(phase, max_delay_samples) ==
    LET lfo_value == RAdd(RMul(SinQ(phase), Norm(1, 2)), Norm(1, 2))
    IN  AsUsize(RMul(lfo_value, Z(max_delay_samples)))

\* fx.rs:133-143, one iteration of the loop over a non-empty delay buffer
flanger_effect_step(buf, idx, phase, sample, a) ==
    LET max_delay_samples == Len(buf)
        current_delay == CurrentDelay(phase, max_delay_samples)
        delayed_sample ==
            buf[((idx + max_delay_samples - current_delay) % max_delay_samples) + 1]
        new_sample == RAdd(sample, RMul(delayed_sample, a.feedback))
    IN  [buf   |-> [buf EXCEPT ![idx + 1] = new_sample],
         idx   |-> (idx + 1) % max_delay_samples,
         phase |-> (phase + LfoQuarters(a.sample_rate, a.rate_hz).n) % 4,
         y     |-> RAdd(RMul(sample, RSub(Z(1), a.mix)), RMul(delayed_sample, a.mix))]

-----------------------------------------------------------------------------

(* filters.rs: BiquadFilter.  Angles are kept in quarter turns (units of  *)
(* pi/2), where sin and cos are rational; the inputs are drawn so that     *)
(* omega = 2*pi*freq/sample_rate is a whole number of them or not finite.  *)

\* omega in quarter turns: filters.rs:71, 96, 122, 149, 176
Omega(sample_rate, freq) == RDiv(RMul(Z(4), freq), sample_rate)

\* f32::sin and f32::cos; NaN on an angle that is not finite
Sin(omega) == IF omega.d = 0 THEN NaN ELSE SinQ(omega.n)

Cos(omega) == IF omega.d = 0 THEN NaN ELSE SinQ(omega.n + 1)

\* the angle is one the model has sin and cos of
Drawn(sr, f) == Omega(sr, f).d \in {0, 1}

\* 10.0_f32.powf(gain_db / 40.0), gain_db a multiple of 40
Pow10(gain_db) ==
    LET e == gain_db.n \div 40
    IN  IF e >= 0 THEN Z(10 ^ e) ELSE Norm(1, 10 ^ (-e))

IsSquare(k) == \E r \in 0..k : r * r = k

\* the values f32::sqrt is exact on: squares of rationals, +inf; NaN below 0
HasSqrt(a) == a.d = 0 \/ a.n < 0 \/ (IsSquare(a.n) /\ IsSquare(a.d))

Sqrt(a) ==
    IF a.d = 0 THEN (IF a.n = 1 THEN a ELSE NaN)
    ELSE IF a.n < 0 THEN NaN
    ELSE [n |-> CHOOSE r \in 0..a.n : r * r = a.n,
          d |-> CHOOSE r \in 0..a.d : r * r = a.d]

\* filters.rs:83-91 and the like: the coefficients divided by a0, no state
Filter(b0, b1, b2, a0, a1, a2) ==
    [b0 |-> RDiv(b0, a0), b1 |-> RDiv(b1, a0), b2 |-> RDiv(b2, a0),
     a1 |-> RDiv(a1, a0), a2 |-> RDiv(a2, a0), z1 |-> Z(0), z2 |-> Z(0)]

NoFilter == Filter(Z(0), Z(0), Z(0), Z(1), Z(0), Z(0))

\* filters.rs:70-92
new_lowpass(sample_rate, cutoff_freq, q_factor) ==
    LET omega == Omega(sample_rate, cutoff_freq)
        sin_omega == Sin(omega)
        cos_omega == Cos(omega)
        alpha == RDiv(sin_omega, RMul(Z(2), q_factor))
    IN  Filter(RDiv(RSub(Z(1), cos_omega), Z(2)),
               RSub(Z(1), cos_omega),
               RDiv(RSub(Z(1), cos_omega), Z(2)),
               RAdd(Z(1), alpha),
               RMul(Z(-2), cos_omega),
               RSub(Z(1), alpha))

\* filters.rs:95-117
new_highpass(sample_rate, cutoff_freq, q_factor) ==
    LET omega == Omega(sample_rate, cutoff_freq)
        sin_omega == Sin(omega)
        cos_omega == Cos(omega)
        alpha == RDiv(sin_omega, RMul(Z(2), q_factor))
    IN  Filter(RDiv(RAdd(Z(1), cos_omega), Z(2)),
               RNeg(RAdd(Z(1), cos_omega)),
               RDiv(RAdd(Z(1), cos_omega), Z(2)),
               RAdd(Z(1), alpha),
               RMul(Z(-2), cos_omega),
               RSub(Z(1), alpha))

\* filters.rs:125 (152), the argument of sqrt in alpha
ShelfRadicand(a, slope) ==
    RAdd(RMul(RAdd(a, RDiv(Z(1), a)), RSub(RDiv(Z(1), slope), Z(1))), Z(2))

\* filters.rs:125 (152)
ShelfAlpha(sin_omega, a, slope) ==
    RMul(RDiv(sin_omega, Z(2)), Sqrt(ShelfRadicand(a, slope)))

\* filters.rs:120-144
new_lowshelf(sample_rate, cutoff_freq, gain_db, slope) ==
    LET a == Pow10(gain_db)
        omega == Omega(sample_rate, cutoff_freq)
        cos_omega == Cos(omega)
        alpha == ShelfAlpha(Sin(omega), a, slope)
        beta == RMul(RMul(Z(2), Sqrt(a)), alpha)
        ap1 == RAdd(a, Z(1))
        am1 == RSub(a, Z(1))
    IN  Filter(RMul(a, RAdd(RSub(ap1, RMul(am1, cos_omega)), beta)),
               RMul(RMul(Z(2), a), RSub(am1, RMul(ap1, cos_omega))),
               RMul(a, RSub(RSub(ap1, RMul(am1, cos_omega)), beta)),
               RAdd(RAdd(ap1, RMul(am1, cos_omega)), beta),
               RMul(Z(-2), RAdd(am1, RMul(ap1, cos_omega))),
               RSub(RAdd(ap1, RMul(am1, cos_omega)), beta))

\* filters.rs:147-171
new_highshelf(sample_rate, cutoff_freq, gain_db, slope) ==
    LET a == Pow10(gain_db)
        omega == Omega(sample_rate, cutoff_freq)
        cos_omega == Cos(omega)
        alpha == ShelfAlpha(Sin(omega), a, slope)
        beta == RMul(RMul(Z(2), Sqrt(a)), alpha)
        ap1 == RAdd(a, Z(1))
        am1 == RSub(a, Z(1))
    IN  Filter(RMul(a, RAdd(RAdd(ap1, RMul(am1, cos_omega)), beta)),
               RMul(RMul(Z(-2), a), RAdd(am1, RMul(ap1, cos_omega))),
               RMul(a, RSub(RAdd(ap1, RMul(am1, cos_omega)), beta)),
               RAdd(RSub(ap1, RMul(am1, cos_omega)), beta),
               RMul(Z(2), RSub(am1, RMul(ap1, cos_omega))),
               RSub(RSub(ap1, RMul(am1, cos_omega)), beta))

\* filters.rs:174-197
new_peaking_eq(sample_rate, freq, q_factor, gain_db) ==
    LET a == Pow10(gain_db)
        omega == Omega(sample_rate, freq)
        sin_omega == Sin(omega)
        cos_omega == Cos(omega)
        alpha == RDiv(sin_omega, RMul(Z(2), q_factor))
    IN  Filter(RAdd(Z(1), RMul(alpha, a)),
               RMul(Z(-2), cos_omega),
               RSub(Z(1), RMul(alpha, a)),
               RAdd(Z(1), RDiv(alpha, a)),
               RMul(Z(-2), cos_omega),
               RSub(Z(1), RDiv(alpha, a)))

\* filters.rs:61-67
process_sample(f, input) ==
    LET output == RSub(RSub(RAdd(RAdd(RMul(f.b0, input), RMul(f.b1, f.z1)),
                                 RMul(f.b2, f.z2)),
                            RMul(f.a1, f.z1)),
                       RMul(f.a2, f.z2))
    IN  [filter |-> [f EXCEPT !.z2 = f.z1, !.z1 = output], output |-> output]

-----------------------------------------------------------------------------
(* fx.rs: compressor.  attack_ms and release_ms are kept in units of       *)
(* 1/ln 2 ms, where exp is rational: with t = attack_ms * ln 2,            *)
(* exp(-1 / (attack_ms * 0.001 * sample_rate)) = 2 ^ (-1 / (t * 0.001 *    *)
(* sample_rate)); the inputs are drawn so that this exponent is a whole    *)
(* number or not finite.                                                   *)

\* f32::exp in that unit: 2 ^ x, 0 at -inf, +inf at +inf, NaN at NaN
Exp2(x) ==
    IF x.d = 0 THEN (IF x.n = -1 THEN Z(0) ELSE x)
    ELSE IF x.n >= 0 THEN Z(2 ^ x.n) ELSE Norm(1, 2 ^ (-(x.n)))

\* fx.rs:45-46  -1.0 / (time_ms * 0.001 * sample_rate)
SmoothingExponent(time_ms, sample_rate) ==
    RDiv(Z(-1), RMul(RMul(time_ms, Norm(1, 1000)), sample_rate))

\* fx.rs:45
attack_coeff(a) == Exp2(SmoothingExponent(a.attack_ms, a.sample_rate))

\* fx.rs:46
release_coeff(a) == Exp2(SmoothingExponent(a.release_ms, a.sample_rate))

\* fx.rs:48, the local of a call of compressor
CompressorEnter(a) ==
    /\ gain' = Z(1)
    /\ UNCHANGED <<delayVars, reverbVars, filters>>

\* a compressor that smooths with attack_coeff while the gain is falling
\* toward its target and with release_coeff while it is rising
compressor_step_by_direction(g, sample, a) ==
    LET input_level == RAbs(sample)
        over_threshold == RLt(a.threshold, input_level)
        compressed_gain ==
            RAdd(a.threshold, RDiv(RSub(input_level, a.threshold), a.ratio))
        target == IF over_threshold THEN compressed_gain ELSE Z(1)
        coeff == IF RLt(target, g) THEN attack_coeff(a) ELSE release_coeff(a)
        new_gain == RAdd(RMul(coeff, RSub(g, target)), target)
    IN  [gain |-> new_gain, y |-> RMul(sample, new_gain)]

\* fx.rs:50-61, one iteration of the loop
compressor_step(g, sample, a) ==
    LET input_level == RAbs(sample)
        over_threshold == RLt(a.threshold, input_level)
        compressed_gain ==
            RAdd(a.threshold, RDiv(RSub(input_level, a.threshold), a.ratio))
        new_gain ==
            IF over_threshold
            THEN RAdd(RMul(attack_coeff(a), RSub(g, compressed_gain)),
                      compressed_gain)
            ELSE RAdd(RMul(release_coeff(a), RSub(g, Z(1))), Z(1))
    IN  [gain |-> new_gain, y |-> RMul(sample, new_gain)]

-----------------------------------------------------------------------------
(* eq.rs: equalizer.  The new_peaking_eq of eq.rs:22-45 computes the       *)
(* coefficients of filters.rs:174-197 and stores them under other field    *)
(* names (a0, a1, a2 for b0, b1, b2; b1, b2 for a1, a2); process_sample    *)
(* (filters.rs:61-67) reads the fields of the struct of filters.rs:46-57.  *)

\* eq.rs:8-11, the local of a call of equalizer: one filter per band
EqualizerEnter(a) ==
    /\ filters' = [j \in 1..Len(a.bands) |->
                     new_peaking_eq(a.sample_rate, a.bands[j].frequency,
                                    a.bands[j].q_factor, a.bands[j].gain_db)]
    /\ UNCHANGED <<delayVars, reverbVars, gain>>

\* the filters from filter j down to the first one
RECURSIVE equalizer_chain_reversed(_, _, _)
equalizer_chain_reversed(fs, j, processed_sample) ==
    IF j < 1 THEN [filters |-> fs, y |-> processed_sample]
    ELSE LET r == process_sample(fs[j], processed_sample)
         IN  equalizer_chain_reversed([fs EXCEPT ![j] = r.filter], j - 1, r.output)

\* an equalizer that applies the last band first
equalizer_step_reversed(fs, sample) ==
    equalizer_chain_reversed(fs, Len(fs), sample)

\* eq.rs:15-17, for filter in filters.iter_mut(), from filter j on
RECURSIVE equalizer_chain(_, _, _)
equalizer_chain(fs, j, processed_sample) ==
    IF j > Len(fs) THEN [filters |-> fs, y |-> processed_sample]
    ELSE LET r == process_sample(fs[j], processed_sample)
         IN  equalizer_chain([fs EXCEPT ![j] = r.filter], j + 1, r.output)

\* eq.rs:14-18, one iteration of the loop over the samples
equalizer_step(fs, sample) == equalizer_chain(fs, 1, sample)

-----------------------------------------------------------------------------
(* Calls of the stateful effects *)

StatefulFns ==
    {"delay_effect", "reverb_effect", "flanger_effect", "compressor", "equalizer"}

\* a call of f on block b: the slice is the caller's, the locals are new
Enter(f, b, a) ==
    /\ samples' = b
    /\ block' = b
    /\ pos' = 0
    /\ status' = "running"
    /\ CASE f = "delay_effect"   -> DelayEnter(a)
         [] f = "reverb_effect"  -> ReverbEnter(a)
         [] f = "flanger_effect" -> FlangerEnter(a)
         [] f = "compressor"     -> CompressorEnter(a)
         [] f = "equalizer"      -> EqualizerEnter(a)

\* the first call on a signal x, delivered whole (k = Len(x)) or cut at k
FirstCall(f, x, k, a) ==
    /\ fn' = f
    /\ args' = a
    /\ signal' = x
    /\ rest' = SubSeq(x, k + 1, Len(x))
    /\ out' = <<>>
    /\ UNCHANGED <<result, panic, filter>>
    /\ Enter(f, SubSeq(x, 1, k), a)

Panic(message) ==
    /\ status' = "panicked"
    /\ panic' = message
    /\ UNCHANGED <<fn, args, result, filter, effectVars>>

delay_effect_call ==
    /\ status = "idle"
    /\ \E x \in Signals, sr \in SampleRates, ms \in DelayTimes, fb \in Feedbacks :
         \E k \in Cuts(x) :
           FirstCall("delay_effect", x, k,
                     [sample_rate |-> sr, delay_time_ms |-> ms, feedback |-> fb])

delay_effect_loop ==
    /\ fn = "delay_effect"
    /\ status = "running"
    /\ pos < Len(samples)
    /\ IF Len(delay_buffer) = 0
       THEN Panic("index out of bounds")     \* fx.rs:7 indexes an empty Vec
       ELSE LET s == delay_effect_step(delay_buffer, delay_index,
                                       samples[pos + 1], args.feedback)
            IN  /\ samples' = [samples EXCEPT ![pos + 1] = s.y]
                /\ delay_buffer' = s.buf
                /\ delay_index' = s.idx
                /\ pos' = pos + 1
                /\ UNCHANGED <<fn, status, args, signal, rest, out, block,
                               lfo_phase, reverbVars, gainVars, result, panic, filter>>

reverb_effect_call ==
    /\ status = "idle"
    /\ \E sr \in ReverbRates, rs \in Mixes, dm \in Feedbacks :
         \E x \in ReverbSignals(sr) :
           \E k \in Cuts(x) :
             FirstCall("reverb_effect", x, k,
                       [sample_rate |-> sr, room_size |-> rs, damping |-> dm])

reverb_effect_loop ==
    /\ fn = "reverb_effect"
    /\ status = "running"
    /\ pos < Len(samples)
    /\ IF \E j \in 1..Len(delay_lines) : Len(delay_lines[j]) = 0
       THEN Panic("index out of bounds")     \* fx.rs:28 indexes an empty Vec
       ELSE LET s == reverb_effect_step(delay_lines, indices, samples[pos + 1],
                                        args.room_size, args.damping)
            IN  /\ samples' = [samples EXCEPT ![pos + 1] = s.y]
                /\ delay_lines' = s.lines
                /\ indices' = s.idxs
                /\ pos' = pos + 1
                /\ UNCHANGED <<fn, status, args, signal, rest, out, block,
                               delayVars, gainVars, result, panic, filter>>

flanger_effect_call ==
    /\ status = "idle"
    /\ \E x \in FlangerSignals, sr \in SampleRates, ms \in DelayTimes, hz \in LfoRates,
          fb \in Feedbacks, mx \in Mixes :
         \E k \in Cuts(x) :
           /\ LfoQuarters(sr, hz).d = 1
           /\ FirstCall("flanger_effect", x, k,
                        [sample_rate |-> sr, depth_ms |-> ms, rate_hz |-> hz,
                         feedback |-> fb, mix |-> mx])

flanger_effect_loop ==
    /\ fn = "flanger_effect"
    /\ status = "running"
    /\ pos < Len(samples)
    /\ IF Len(delay_buffer) = 0
       THEN Panic("remainder by zero")       \* fx.rs:136, % max_delay_samples
       ELSE LET s == flanger_effect_step(delay_buffer, delay_index, lfo_phase,
                                         samples[pos + 1], args)
            IN  /\ samples' = [samples EXCEPT ![pos + 1] = s.y]
                /\ delay_buffer' = s.buf
                /\ delay_index' = s.idx
                /\ lfo_phase' = s.phase
                /\ pos' = pos + 1
                /\ UNCHANGED <<fn, status, args, signal, rest, out, block,
                               reverbVars, gainVars, result, panic, filter>>

compressor_call ==
    /\ status = "idle"
    /\ \E x \in CompressorSignals, th \in Thresholds, ra \in Ratios,
          at \in AttackTimes, re \in ReleaseTimes, sr \in CompressorRates :
         \E k \in Cuts(x) :
           /\ SmoothingExponent(at, sr).d \in {0, 1}
           /\ SmoothingExponent(re, sr).d \in {0, 1}
           /\ FirstCall("compressor", x, k,
                        [threshold |-> th, ratio |-> ra, attack_ms |-> at,
                         release_ms |-> re, sample_rate |-> sr])

compressor_loop ==
    /\ fn = "compressor"
    /\ status = "running"
    /\ pos < Len(samples)
    /\ LET s == compressor_step(gain, samples[pos + 1], args)
       IN  /\ samples' = [samples EXCEPT ![pos + 1] = s.y]
           /\ gain' = s.gain
           /\ pos' = pos + 1
    /\ UNCHANGED <<fn, status, args, signal, rest, out, block,
                   delayVars, reverbVars, filters, result, panic, filter>>

equalizer_call ==
    /\ status = "idle"
    /\ \E x \in FilterSignals, sr \in EqualizerRates, bs \in EqualizerBands :
         \E k \in Cuts(x) :
           /\ \A j \in 1..Len(bs) : Drawn(sr, bs[j].frequency)
           /\ FirstCall("equalizer", x, k, [sample_rate |-> sr, bands |-> bs])

equalizer_loop ==
    /\ fn = "equalizer"
    /\ status = "running"
    /\ pos < Len(samples)
    /\ LET s == equalizer_step(filters, samples[pos + 1])
       IN  /\ samples' = [samples EXCEPT ![pos + 1] = s.y]
           /\ filters' = s.filters
           /\ pos' = pos + 1
    /\ UNCHANGED <<fn, status, args, signal, rest, out, block,
                   delayVars, reverbVars, gain, result, panic, filter>>

\* the loop over the slice is over: the function returns, its locals die
effect_return ==
    /\ fn \in StatefulFns
    /\ status = "running"
    /\ pos = Len(samples)
    /\ status' = "returned"
    /\ out' = out \o samples
    /\ UNCHANGED <<fn, args, signal, rest, block, samples, pos,
                   delayVars, reverbVars, gainVars, result, panic, filter>>

\* the per-block handler calls the function again on the next block of the
\* same signal, with the same parameters
next_block ==
    /\ fn \in StatefulFns
    /\ status = "returned"
    /\ rest # <<>>
    /\ rest' = <<>>
    /\ Enter(fn, rest, args)
    /\ UNCHANGED <<fn, args, signal, out, result, panic, filter>>

-----------------------------------------------------------------------------

(* Stateless functions: a call is one step, from "idle" to "returned" with *)
(* its result or to "panicked" with the panic's message.                   *)

\* the outcome of a call
Returned(v) == [status |-> "returned", value |-> v, panic |-> ""]

Panicked(m) == [status |-> "panicked", value |-> <<>>, panic |-> m]

Finish(f, a, r) ==
    /\ fn' = f
    /\ args' = a
    /\ status' = r.status
    /\ result' = r.value
    /\ panic' = r.panic
    /\ UNCHANGED <<filter, effectVars>>

-----------------------------------------------------------------------------
(* filters.rs: the first-order filters.  The cutoff is given as the        *)
(* angular frequency w = 2 * PI * cutoff_freq, so that rc = 1 / w.         *)

\* filters.rs:5-7
low_pass_alpha(sample_rate, w) ==
    LET rc == RDiv(Z(1), w)
        dt == RDiv(Z(1), sample_rate)
    IN  RDiv(dt, RAdd(rc, dt))

\* filters.rs:10-15
RECURSIVE low_pass_run(_, _, _)
low_pass_run(previous, xs, alpha) ==
    IF xs = <<>> THEN <<>>
    ELSE LET y == RAdd(previous, RMul(alpha, RSub(Head(xs), previous)))
         IN  <<y>> \o low_pass_run(y, Tail(xs), alpha)

\* filters.rs:3-16
low_pass_filter(xs, sample_rate, w) ==
    IF Len(xs) = 0
    THEN Panicked("index out of bounds")      \* filters.rs:9, samples[0]
    ELSE Returned(low_pass_run(xs[1], xs, low_pass_alpha(sample_rate, w)))

\* filters.rs:21-23
high_pass_alpha(sample_rate, w) ==
    LET rc == RDiv(Z(1), w)
        dt == RDiv(Z(1), sample_rate)
    IN  RDiv(rc, RAdd(rc, dt))

\* filters.rs:28-33
RECURSIVE high_pass_run(_, _, _, _)
high_pass_run(previous_input, previous_output, xs, alpha) ==
    IF xs = <<>> THEN <<>>
    ELSE LET current_input == Head(xs)
             y == RMul(alpha, RSub(RAdd(previous_output, current_input),
                                   previous_input))
         IN  <<y>> \o high_pass_run(current_input, y, Tail(xs), alpha)

\* filters.rs:20-34
high_pass_filter(xs, sample_rate, w) ==
    IF Len(xs) = 0
    THEN Panicked("index out of bounds")      \* filters.rs:25, samples[0]
    ELSE Returned(high_pass_run(xs[1], xs[1], xs,
                                high_pass_alpha(sample_rate, w)))

low_pass_filter_call ==
    /\ status = "idle"
    /\ \E xs \in FilterSignals, sr \in FilterRates, w \in AngularCutoffs :
         Finish("low_pass_filter",
                [samples |-> xs, sample_rate |-> sr, w |-> w],
                low_pass_filter(xs, sr, w))

high_pass_filter_call ==
    /\ status = "idle"
    /\ \E xs \in FilterSignals, sr \in FilterRates, w \in AngularCutoffs :
         Finish("high_pass_filter",
                [samples |-> xs, sample_rate |-> sr, w |-> w],
                high_pass_filter(xs, sr, w))

-----------------------------------------------------------------------------
(* dsp.rs: convolve, resample, normalize, mid/side *)

\* dsp.rs:75-79, output[k] for the 0-based k
ConvolveAt(sig, ir, k) ==
    RSum([i \in 1..Len(sig) |->
            IF k - (i - 1) \in 0..(Len(ir) - 1)
            THEN RMul(sig[i], ir[k - (i - 1) + 1]) ELSE Z(0)])

\* dsp.rs:69-82.  n + m - 1 on usize with n = m = 0: a debug build panics
\* on the subtraction, a release build wraps to usize::MAX and the
\* allocation of that many f32 panics.
convolve(sig, ir) ==
    LET n == Len(sig)
        m == Len(ir)
    IN  IF n + m - 1 < 0
        THEN {Panicked("attempt to subtract with overflow"),
              Panicked("capacity overflow")}
        ELSE {Returned([k \in 1..(n + m - 1) |-> ConvolveAt(sig, ir, k - 1)])}

convolve_call ==
    /\ status = "idle"
    /\ \E sig \in ConvolveSignals, ir \in ConvolveSignals :
         \E r \in convolve(sig, ir) :
            Finish("convolve", [signal |-> sig, impulse_response |-> ir], r)

\* a new_length cut off instead of rounded
ResampleLength_trunc(len, original_rate, target_rate) ==
    LET resample_ratio == RDiv(target_rate, original_rate)
    IN  AsUsize(RMul(Z(len), resample_ratio))

\* dsp.rs:136-137
ResampleLength(len, original_rate, target_rate) ==
    LET resample_ratio == RDiv(target_rate, original_rate)
    IN  AsUsize(Z(Round(RMul(Z(len), resample_ratio))))

\* dsp.rs:141-142, src_index.floor() as usize
IndexFloor(i, original_rate, target_rate) ==
    LET src_index == RDiv(Z(i), RDiv(target_rate, original_rate))
    IN  AsUsize(src_index)

\* dsp.rs:143
IndexCeil(index_floor, len) ==
    IF index_floor + 1 < len - 1 THEN index_floor + 1 ELSE len - 1

\* dsp.rs:141-146, the sample pushed for the 0-based i
ResampleAt(xs, i, original_rate, target_rate) ==
    LET src_index == RDiv(Z(i), RDiv(target_rate, original_rate))
        index_floor == IndexFloor(i, original_rate, target_rate)
        index_ceil == IndexCeil(index_floor, Len(xs))
        weight == RSub(src_index, Z(index_floor))
    IN  RAdd(RMul(xs[index_floor + 1], RSub(Z(1), weight)),
             RMul(xs[index_ceil + 1], weight))

\* dsp.rs:135-151
resample(xs, original_rate, target_rate) ==
    LET new_length == ResampleLength(Len(xs), original_rate, target_rate)
    IN  IF \E i \in 0..(new_length - 1) :
               IndexFloor(i, original_rate, target_rate) >= Len(xs)
        THEN Panicked("index out of bounds")  \* dsp.rs:146, samples[index_floor]
        ELSE Returned([k \in 1..new_length |->
                         ResampleAt(xs, k - 1, original_rate, target_rate)])

resample_call ==
    /\ status = "idle"
    /\ \E xs \in ResampleSignals, o \in 1..MaxRate, t \in 1..MaxRate :
         Finish("resample",
                [samples |-> xs, original_rate |-> Z(o), target_rate |-> Z(t)],
                resample(xs, Z(o), Z(t)))

\* a fold that takes the largest sample, not the largest magnitude
RECURSIVE MaxFold_signed(_, _)
MaxFold_signed(current_max, xs) ==
    IF xs = <<>> THEN current_max
    ELSE MaxFold_signed(IF RLt(current_max, Head(xs)) THEN Head(xs)
                        ELSE current_max,
                        Tail(xs))

\* dsp.rs:154-164 (fx.rs:66-76), the fold over the |x|: None on an empty slice
RECURSIVE MaxFold(_, _)
MaxFold(current_max, xs) ==
    IF xs = <<>> THEN current_max
    ELSE MaxFold(IF RLt(current_max, RAbs(Head(xs))) THEN RAbs(Head(xs))
                 ELSE current_max,
                 Tail(xs))

\* dsp.rs:153-172 (the same text as fx.rs:65-84)
normalize(xs) ==
    IF xs = <<>> THEN xs
    ELSE LET max_amplitude == MaxFold(RAbs(xs[1]), Tail(xs))
         IN  IF RLt(Z(0), max_amplitude)
             THEN LET normalizing_factor == RDiv(Z(1), max_amplitude)
                  IN  [k \in 1..Len(xs) |-> RMul(xs[k], normalizing_factor)]
             ELSE xs

normalize_call ==
    /\ status = "idle"
    /\ \E xs \in NormalizeSignals :
         Finish("normalize", [samples |-> xs], Returned(normalize(xs)))

Min(a, b) == IF a < b THEN a ELSE b

\* dsp.rs:176-188; zip stops at the shorter channel
mid_side_encode(left_channel, right_channel) ==
    LET len == Min(Len(left_channel), Len(right_channel))
    IN  << [k \in 1..len |->
              RMul(RAdd(left_channel[k], right_channel[k]), Norm(1, 2))],
           [k \in 1..len |->
              RMul(RSub(left_channel[k], right_channel[k]), Norm(1, 2))] >>

\* a decoder with the two channels exchanged
mid_side_decode_swapped(mid, side) ==
    LET len == Min(Len(mid), Len(side))
    IN  << [k \in 1..len |-> RSub(mid[k], side[k])],
           [k \in 1..len |-> RAdd(mid[k], side[k])] >>

\* dsp.rs:190-194
mid_side_decode(mid, side) ==
    LET len == Min(Len(mid), Len(side))
    IN  << [k \in 1..len |-> RAdd(mid[k], side[k])],
           [k \in 1..len |-> RSub(mid[k], side[k])] >>

mid_side_encode_call ==
    /\ status = "idle"
    /\ \E l \in StereoSignals, r \in StereoSignals :
         Finish("mid_side_encode", [left |-> l, right |-> r],
                Returned(mid_side_encode(l, r)))

\* the pair just encoded is decoded again; args keeps the channels encoded
mid_side_decode_call ==
    /\ fn = "mid_side_encode"
    /\ status = "returned"
    /\ Finish("mid_side_decode", args,
              Returned(mid_side_decode(result[1], result[2])))

-----------------------------------------------------------------------------
(* Calls of the BiquadFilter constructors and of process_sample *)

Constructors == {"new_lowpass", "new_highpass", "new_lowshelf",
                 "new_highshelf", "new_peaking_eq"}

\* the constructors return Self: there is no failing outcome
Construct(f, a, v) ==
    /\ fn' = f
    /\ args' = a
    /\ status' = "returned"
    /\ filter' = v
    /\ out' = <<>>
    /\ pos' = 0
    /\ UNCHANGED <<result, panic, signal, rest, block, samples,
                   delayVars, reverbVars, gainVars>>

new_lowpass_call ==
    /\ status = "idle"
    /\ \E sr \in BiquadRates, f \in BiquadFreqs, q \in BiquadQs :
         /\ Drawn(sr, f)
         /\ Construct("new_lowpass",
                      [sample_rate |-> sr, freq |-> f, q |-> q, gain_db |-> Z(0)],
                      new_lowpass(sr, f, q))

new_highpass_call ==
    /\ status = "idle"
    /\ \E sr \in BiquadRates, f \in BiquadFreqs, q \in BiquadQs :
         /\ Drawn(sr, f)
         /\ Construct("new_highpass",
                      [sample_rate |-> sr, freq |-> f, q |-> q, gain_db |-> Z(0)],
                      new_highpass(sr, f, q))

new_lowshelf_call ==
    /\ status = "idle"
    /\ \E sr \in BiquadRates, f \in BiquadFreqs, q \in BiquadSlopes,
          g \in BiquadGains :
         /\ Drawn(sr, f)
         /\ HasSqrt(Pow10(g))
         /\ HasSqrt(ShelfRadicand(Pow10(g), q))
         /\ Construct("new_lowshelf",
                      [sample_rate |-> sr, freq |-> f, q |-> q, gain_db |-> g],
                      new_lowshelf(sr, f, g, q))

new_highshelf_call ==
    /\ status = "idle"
    /\ \E sr \in BiquadRates, f \in BiquadFreqs, q \in BiquadSlopes,
          g \in BiquadGains :
         /\ Drawn(sr, f)
         /\ HasSqrt(Pow10(g))
         /\ HasSqrt(ShelfRadicand(Pow10(g), q))
         /\ Construct("new_highshelf",
                      [sample_rate |-> sr, freq |-> f, q |-> q, gain_db |-> g],
                      new_highshelf(sr, f, g, q))

new_peaking_eq_call ==
    /\ status = "idle"
    /\ \E sr \in BiquadRates, f \in BiquadFreqs, q \in BiquadQs,
          g \in BiquadGains :
         /\ Drawn(sr, f)
         /\ Construct("new_peaking_eq",
                      [sample_rate |-> sr, freq |-> f, q |-> q, gain_db |-> g],
                      new_peaking_eq(sr, f, q, g))

\* a sample is put through the filter just constructed
process_sample_call ==
    /\ fn \in Constructors
    /\ status = "returned"
    /\ pos < MaxBiquadLen
    /\ \E input \in {Z(1)} :
         LET r == process_sample(filter, input)
         IN  /\ filter' = r.filter
             /\ out' = Append(out, r.output)
             /\ pos' = pos + 1
    /\ UNCHANGED <<fn, status, args, result, panic, signal, rest, block,
                   samples, delayVars, reverbVars, gainVars>>

-----------------------------------------------------------------------------

Init ==
    /\ fn = "none"
    /\ status = "idle"
    /\ args = [none |-> TRUE]
    /\ signal = <<>>
    /\ rest = <<>>
    /\ out = <<>>
    /\ block = <<>>
    /\ samples = <<>>
    /\ pos = 0
    /\ delay_buffer = <<>>
    /\ delay_index = 0
    /\ delay_lines = <<>>
    /\ indices = <<>>
    /\ lfo_phase = 0
    /\ gain = Z(1)
    /\ filters = <<>>
    /\ result = <<>>
    /\ panic = ""
    /\ filter = NoFilter

Next ==
    \/ delay_effect_call
    \/ delay_effect_loop
    \/ reverb_effect_call
    \/ reverb_effect_loop
    \/ flanger_effect_call
    \/ flanger_effect_loop
    \/ compressor_call
    \/ compressor_loop
    \/ equalizer_call
    \/ equalizer_loop
    \/ effect_return
    \/ next_block
    \/ low_pass_filter_call
    \/ high_pass_filter_call
    \/ convolve_call
    \/ resample_call
    \/ normalize_call
    \/ mid_side_encode_call
    \/ mid_side_decode_call
    \/ new_lowpass_call
    \/ new_highpass_call
    \/ new_lowshelf_call
    \/ new_highshelf_call
    \/ new_peaking_eq_call
    \/ process_sample_call

Spec == Init /\ [][Next]_vars


-----------------------------------------------------------------------------
(* Claims *)

Max(a, b) == IF a > b THEN a ELSE b

\* N = max(1, round(sample_rate * duration_ms / 1000))
SpecLength(sample_rate, time_ms) ==
    Max(1, Round(RDiv(RMul(sample_rate, time_ms), Z(1000))))

Called(f) == fn = f /\ status # "idle"

\* a <= b on finite values
RLe(a, b) == a.n * b.d <= b.n * a.d

\* the parameters the constructors are to refuse: a frequency at or beyond
\* Nyquist, or a Q, slope or sample rate that is not positive
InvalidParameter(a) ==
    \/ ~RLt(Z(0), a.sample_rate)
    \/ ~RLt(Z(0), a.q)
    \/ ~RLt(a.freq, RDiv(a.sample_rate, Z(2)))

\* C1: a signal delivered to delay_effect as two consecutive non-empty
\* blocks (one call per block, same parameters) comes out as it does from
\* one call on the whole signal: the delay buffer and its cursor are not
\* reset at the block boundary.
C1_BlocksAsWhole ==
    (fn = "delay_effect" /\ status = "returned" /\ rest = <<>>)
        => out = delay_effect(signal, args)

\* C2: the delay buffers of delay_effect, flanger_effect and reverb_effect
\* have length max(1, round(sample_rate * duration_ms / 1000)), so no call
\* indexes an empty buffer or takes a remainder by zero.
C2_LengthAtLeastOne ==
    /\ Called("delay_effect")
          => /\ Len(delay_buffer) = SpecLength(args.sample_rate, args.delay_time_ms)
             /\ status # "panicked"
    /\ Called("flanger_effect")
          => /\ Len(delay_buffer) = SpecLength(args.sample_rate, args.depth_ms)
             /\ status # "panicked"
    /\ Called("reverb_effect")
          => /\ \A j \in 1..Len(delay_lines) :
                   Len(delay_lines[j]) = SpecLength(args.sample_rate, Z(delay_times[j]))
             /\ status # "panicked"

\* C3: every write cursor of delay_effect, reverb_effect and flanger_effect
\* is in [0, length) of its delay buffer.
C3_CursorInRange ==
    /\ (Called("delay_effect") \/ Called("flanger_effect"))
          => delay_index \in 0..(Len(delay_buffer) - 1)
    /\ Called("reverb_effect")
          => \A j \in 1..Len(delay_lines) :
                indices[j] \in 0..(Len(delay_lines[j]) - 1)

\* C3, what the code does keep: a step that processes a sample moves each
\* cursor to (cursor + 1) mod length, and no step after the construction
\* changes the length of a delay buffer.
C3_CursorAdvances ==
    [][(status = "running" /\ status' = "running" /\ pos' = pos + 1) =>
          /\ fn \in {"delay_effect", "flanger_effect"} =>
                /\ Len(delay_buffer') = Len(delay_buffer)
                /\ delay_index' = (delay_index + 1) % Len(delay_buffer)
          /\ fn = "reverb_effect" =>
                \A j \in 1..Len(delay_lines) :
                   /\ Len(delay_lines'[j]) = Len(delay_lines[j])
                   /\ indices'[j] = (indices[j] + 1) % Len(delay_lines[j])]_vars

\* C4: delay_effect is a FIFO of depth N, the capacity of its buffer: of
\* the samples processed so far, output k is 0 for k < N and is
\* x[k-N] + feedback * output[k-N] from there on (the dry input x[k] is not
\* in it); capacity 4, feedback 0 and the inputs 1,2,3,4,5 give 0,0,0,0,1.
C4_DelayIsFifo ==
    Called("delay_effect") =>
        LET N == Len(delay_buffer)
        IN  /\ \A k \in 1..pos :
                 samples[k] = IF k <= N THEN Z(0)
                              ELSE RAdd(block[k - N],
                                        RMul(args.feedback, samples[k - N]))
            /\ \A k \in (pos + 1)..Len(samples) : samples[k] = block[k]
            /\ (/\ status = "returned"
                /\ block = Ints(<<1, 2, 3, 4, 5>>)
                /\ N = 4
                /\ args.feedback = Z(0))
                  => samples = Ints(<<0, 0, 0, 0, 1>>)

C4_Witness ==
    /\ fn = "delay_effect"
    /\ status = "returned"
    /\ block = Ints(<<1, 2, 3, 4, 5>>)
    /\ Len(delay_buffer) = 4
    /\ args.feedback = Z(0)
    /\ samples = Ints(<<0, 0, 0, 0, 1>>)

\* C4, the feedback path: a sample that went round the buffer once with a
\* non-zero feedback has come out
C4_FeedbackSeen ==
    /\ fn = "delay_effect"
    /\ status = "returned"
    /\ args.feedback # Z(0)
    /\ \E k \in 1..Len(samples) :
          /\ k > 2 * Len(delay_buffer)
          /\ samples[k] # block[k - Len(delay_buffer)]

\* C5: a BiquadFilter constructor given a frequency at or beyond Nyquist,
\* or a non-positive Q, slope or sample rate, fails with InvalidParameter:
\* it returns no filter, and no sample is processed with such parameters.
C5_InvalidParameterFails ==
    (fn \in Constructors /\ status # "idle" /\ InvalidParameter(args))
        => /\ status = "failed"
           /\ panic = "InvalidParameter"
           /\ filter = NoFilter
           /\ pos = 0

\* C6: a call of low_pass_filter, high_pass_filter or resample on an empty
\* buffer, and of convolve on an empty signal and an empty impulse
\* response, returns (a no-op or an empty result) and does not panic.
C6_EmptyInputReturns ==
    /\ (status # "idle" /\ fn \in {"low_pass_filter", "high_pass_filter", "resample"})
          => (args.samples = <<>> => (status = "returned" /\ result = <<>>))
    /\ (status # "idle" /\ fn = "convolve")
          => ((args.signal = <<>> /\ args.impulse_response = <<>>)
                 => (status = "returned" /\ result = <<>>))

\* C7: the four delay lines of reverb_effect have pairwise coprime lengths
\* at 44100 Hz and at 48000 Hz.
C7_LengthsCoprime ==
    (Called("reverb_effect") /\ args.sample_rate \in {Z(44100), Z(48000)})
        => \A i, j \in 1..Len(delay_lines) :
              i < j => GCD(Len(delay_lines[i]), Len(delay_lines[j])) = 1

\* C7 as amended: the delay times 29, 37, 41, 43 ms are pairwise coprime
\* and each delay line holds floor(sample_rate * t / 1000) samples; the
\* lengths are the delay times themselves, pairwise coprime, at 1000 Hz,
\* and are 1278, 1631, 1808, 1896 at 44100 Hz and 1392, 1776, 1968, 2064
\* at 48000 Hz, which are not pairwise coprime.
C7_LengthsFromPrimeTimes ==
    Called("reverb_effect") =>
        LET len == [j \in 1..Len(delay_lines) |-> Len(delay_lines[j])]
            sr == args.sample_rate.n
        IN  /\ Len(delay_lines) = 4
            /\ \A i, j \in 1..4 :
                  i < j => GCD(delay_times[i], delay_times[j]) = 1
            /\ \A j \in 1..4 :
                  /\ len[j] * 1000 <= sr * delay_times[j]
                  /\ sr * delay_times[j] < (len[j] + 1) * 1000
            /\ sr = 1000 =>
                  /\ len = delay_times
                  /\ \A i, j \in 1..4 : i < j => GCD(len[i], len[j]) = 1
            /\ sr = 44100 =>
                  /\ len = <<1278, 1631, 1808, 1896>>
                  /\ GCD(len[1], len[3]) = 2
            /\ sr = 48000 =>
                  /\ len = <<1392, 1776, 1968, 2064>>
                  /\ \A j \in 1..4 : len[j] % 48 = 0

C7_Witness ==
    /\ fn = "reverb_effect"
    /\ status = "returned"
    /\ args.sample_rate = Z(44100)
    /\ pos = 1
    /\ Len(delay_lines[1]) = 1278
    /\ delay_lines[1][1] = Z(1)
    /\ indices[1] = 1

\* C8: on channels of equal length mid_side_encode gives (L+R)/2 and
\* (L-R)/2 element by element (L = 1,-1 and R = 1,1 give mid 1,0 and
\* side 0,-1), and mid_side_decode of the encoded pair gives back (L, R).
C8_MidSideInverse ==
    /\ (fn = "mid_side_encode" /\ status = "returned"
        /\ Len(args.left) = Len(args.right))
          => /\ Len(result[1]) = Len(args.left)
             /\ Len(result[2]) = Len(args.left)
             /\ \A k \in 1..Len(args.left) :
                   /\ RMul(Z(2), result[1][k]) = RAdd(args.left[k], args.right[k])
                   /\ RAdd(RMul(Z(2), result[2][k]), args.right[k]) = args.left[k]
             /\ (args.left = Ints(<<1, -1>>) /\ args.right = Ints(<<1, 1>>))
                   => result = <<Ints(<<1, 0>>), Ints(<<0, -1>>)>>
    /\ (fn = "mid_side_decode" /\ status = "returned"
        /\ Len(args.left) = Len(args.right))
          => result = <<args.left, args.right>>

C8_Witness ==
    /\ fn = "mid_side_decode"
    /\ status = "returned"
    /\ args.left = Ints(<<1, -1>>)
    /\ args.right = Ints(<<1, 1>>)
    /\ result = <<Ints(<<1, -1>>), Ints(<<1, 1>>)>>

\* C9: normalize leaves a buffer with a non-zero sample with largest
\* magnitude 1, every sample keeping its sign and its ratio to the others;
\* an all-zero buffer and an empty buffer are left as they are.
C9_Normalize ==
    (fn = "normalize" /\ status = "returned") =>
        LET x == args.samples
            y == result
        IN  /\ Len(y) = Len(x)
            /\ IF \E k \in 1..Len(x) : x[k] # Z(0)
               THEN /\ \E k \in 1..Len(y) : RAbs(y[k]) = Z(1)
                    /\ \A k \in 1..Len(y) : RLe(RAbs(y[k]), Z(1))
                    /\ \A k \in 1..Len(y) : Sgn(y[k].n) = Sgn(x[k].n)
                    /\ \A j, k \in 1..Len(y) : RMul(y[j], x[k]) = RMul(y[k], x[j])
               ELSE y = x

C9_Witness ==
    /\ fn = "normalize"
    /\ status = "returned"
    /\ args.samples = <<Z(1), Z(-3), Norm(1, 2)>>
    /\ result = <<Norm(1, 3), Z(-1), Norm(1, 6)>>

\* C10: resample of a non-empty buffer of length len, with positive rates
\* o and t, returns round(len * t / o) samples; the lower source index of
\* output i is floor(i * o / t) <= len - 1 and the upper one is
\* min(lower + 1, len - 1), so that no read is out of bounds; the buffer
\* 0,1,2,3 resampled from rate 2 to rate 4 is 0, 1/2, 1, 3/2, 2, 5/2, 3, 3.
C10_Resample ==
    (fn = "resample" /\ status # "idle" /\ args.samples # <<>>) =>
        LET len == Len(args.samples)
            o == args.original_rate
            t == args.target_rate
            n == Len(result)
        IN  /\ status = "returned"
            /\ (2 * n - 1) * o.n <= 2 * len * t.n
            /\ 2 * len * t.n < (2 * n + 1) * o.n
            /\ \A i \in 0..(n - 1) :
                  /\ IndexFloor(i, o, t) = (i * o.n) \div t.n
                  /\ IndexFloor(i, o, t) <= len - 1
                  /\ IndexCeil(IndexFloor(i, o, t), len)
                        = Min(IndexFloor(i, o, t) + 1, len - 1)
            /\ (args.samples = Ints(<<0, 1, 2, 3>>) /\ o = Z(2) /\ t = Z(4))
                  => result = <<Z(0), Norm(1, 2), Z(1), Norm(3, 2), Z(2),
                                Norm(5, 2), Z(3), Z(3)>>

C10_Witness ==
    /\ fn = "resample"
    /\ status = "returned"
    /\ args.samples = Ints(<<0, 1, 2, 3>>)
    /\ args.original_rate = Z(2)
    /\ args.target_rate = Z(4)
    /\ Len(result) = 8
    /\ result[8] = Z(3)

\* the gain the compressor applies to sample k of the block b (0: before the
\* first sample): it starts at 1.0 and, per sample, moves toward
\* threshold + (|input| - threshold) / ratio by attack_coeff when
\* |input| > threshold, toward 1.0 by release_coeff otherwise
RECURSIVE GainAt(_, _, _)
GainAt(b, k, a) ==
    IF k = 0 THEN Z(1)
    ELSE LET before == GainAt(b, k - 1, a)
             level == RAbs(b[k])
             over == RLt(a.threshold, level)
             target == IF over
                       THEN RAdd(a.threshold,
                                 RDiv(RSub(level, a.threshold), a.ratio))
                       ELSE Z(1)
             coeff == IF over THEN attack_coeff(a) ELSE release_coeff(a)
         IN  RAdd(RMul(coeff, RSub(before, target)), target)

\* C11: in compressor the smoothing coefficient of a sample depends only on
\* whether |input| > threshold (attack_coeff toward
\* threshold + (|input| - threshold) / ratio) or not (release_coeff toward
\* 1.0), never on the current gain or its direction; the gain starts at 1.0,
\* is updated once per sample before it is applied, and
\* output = input * updated gain.
C11_CompressorGain ==
    Called("compressor") =>
        /\ gain = GainAt(block, pos, args)
        /\ \A k \in 1..pos :
             samples[k] = RMul(block[k], GainAt(block, k, args))
        /\ \A k \in (pos + 1)..Len(samples) : samples[k] = block[k]

\* a call has returned in which the gain rose under attack_coeff (a sample
\* over the threshold whose target is above the gain) and fell under
\* release_coeff (a sample under the threshold met with a gain above 1.0),
\* the two coefficients being different
C11_Witness ==
    /\ fn = "compressor"
    /\ status = "returned"
    /\ attack_coeff(args) # release_coeff(args)
    /\ \E k \in 1..Len(block) :
         /\ RLt(args.threshold, RAbs(block[k]))
         /\ RLt(GainAt(block, k - 1, args), GainAt(block, k, args))
    /\ \E k \in 1..Len(block) :
         /\ ~RLt(args.threshold, RAbs(block[k]))
         /\ RLt(GainAt(block, k, args), GainAt(block, k - 1, args))

\* flanger_effect is about to process a sample
AboutToTap == fn = "flanger_effect" /\ status = "running" /\ pos < Len(samples)

\* fx.rs:136, the index the next iteration reads the delay buffer at
ReadIndex ==
    (delay_index + Len(delay_buffer)
        - CurrentDelay(lfo_phase, Len(delay_buffer))) % Len(delay_buffer)

\* C12: in flanger_effect, for every LFO value and every cursor position,
\* the read index (delay_index + max_delay_samples - current_delay) mod
\* max_delay_samples is computed without unsigned underflow
\* (current_delay <= max_delay_samples) and lies in [0, max_delay_samples);
\* when current_delay is 0 it equals the write cursor.
C12_ReadIndexInRange ==
    AboutToTap =>
        LET max_delay_samples == Len(delay_buffer)
            current_delay == CurrentDelay(lfo_phase, max_delay_samples)
        IN  /\ current_delay <= max_delay_samples
            /\ \E r \in 0..(max_delay_samples - 1) : r = ReadIndex
            /\ current_delay = 0 => ReadIndex = delay_index

\* C12, what the code does keep: on a delay buffer that is not empty the
\* subtraction does not underflow, the read index is in range, and at
\* current_delay = 0 (and at current_delay = max_delay_samples) it is the
\* write cursor.
C12_ReadIndexNonEmpty ==
    (AboutToTap /\ Len(delay_buffer) > 0) =>
        LET max_delay_samples == Len(delay_buffer)
            current_delay == CurrentDelay(lfo_phase, max_delay_samples)
        IN  /\ current_delay <= max_delay_samples
            /\ ReadIndex \in 0..(max_delay_samples - 1)
            /\ current_delay \in {0, max_delay_samples} => ReadIndex = delay_index

\* C12, the tap at current_delay = 0 taken as a tap without delay: with
\* mix = 1 the output would be the input.  The code reads the cell at the
\* write cursor before it writes it (fx.rs:136-139), so the tap returns what
\* was written max_delay_samples iterations earlier.
C12_ZeroDelayTap ==
    [][(AboutToTap /\ pos' = pos + 1 /\ Len(delay_buffer) > 0
          /\ CurrentDelay(lfo_phase, Len(delay_buffer)) = 0
          /\ args.mix = Z(1) /\ args.feedback = Z(0))
        => samples'[pos + 1] = samples[pos + 1]]_vars

\* C12, the same tap as the code computes it: the cell at the write cursor,
\* read before this iteration writes it
C12_TapReadsCursorCell ==
    [][(AboutToTap /\ pos' = pos + 1 /\ Len(delay_buffer) > 0
          /\ CurrentDelay(lfo_phase, Len(delay_buffer)) = 0)
        => samples'[pos + 1] =
              RAdd(RMul(samples[pos + 1], RSub(Z(1), args.mix)),
                   RMul(delay_buffer[delay_index + 1], args.mix))]_vars

\* the LFO is at its lowest (lfo_value = 0) over a buffer of several cells,
\* away from cursor 0
C12_LfoLowest ==
    /\ AboutToTap
    /\ Len(delay_buffer) > 1
    /\ delay_index > 0
    /\ SinQ(lfo_phase) = Z(-1)

\* the filter the equalizer builds for band j
BandFilter(a, j) ==
    new_peaking_eq(a.sample_rate, a.bands[j].frequency,
                   a.bands[j].q_factor, a.bands[j].gain_db)

\* what band j puts out for sample k of the block b (band 0: the sample
\* itself; before the first sample: 0): its input is the output of band
\* j - 1 for that sample, its state is its own two outputs before
RECURSIVE BandOutput(_, _, _, _)
BandOutput(b, k, j, a) ==
    IF k < 1 THEN Z(0)
    ELSE IF j = 0 THEN b[k]
    ELSE LET f == BandFilter(a, j)
             input == BandOutput(b, k, j - 1, a)
             z1 == BandOutput(b, k - 1, j, a)
             z2 == BandOutput(b, k - 2, j, a)
         IN  RSub(RSub(RAdd(RAdd(RMul(f.b0, input), RMul(f.b1, z1)),
                            RMul(f.b2, z2)),
                       RMul(f.a1, z1)),
                  RMul(f.a2, z2))

\* C13: equalizer builds one filter per band and, for every sample in buffer
\* order, passes it through all band filters in the caller's band order (the
\* output of band j is the input of band j + 1), each filter keeping its own
\* state from one sample to the next; with zero bands every sample is left
\* unchanged.
C13_BandsInOrder ==
    Called("equalizer") =>
        LET n == Len(args.bands)
        IN  /\ Len(filters) = n
            /\ \A j \in 1..n :
                 /\ filters[j] = [BandFilter(args, j) EXCEPT
                                    !.z1 = BandOutput(block, pos, j, args),
                                    !.z2 = BandOutput(block, pos - 1, j, args)]
            /\ \A k \in 1..pos : samples[k] = BandOutput(block, k, n, args)
            /\ \A k \in (pos + 1)..Len(samples) : samples[k] = block[k]
            /\ n = 0 => samples = block

\* a call with two different bands has returned from a block of three
\* samples or more (the third is the first a filter's state weighs on),
\* the two filters holding different states
C13_Witness ==
    /\ fn = "equalizer"
    /\ status = "returned"
    /\ Len(args.bands) = 2
    /\ args.bands[1] # args.bands[2]
    /\ Len(block) >= 3
    /\ block[1] # Z(0)
    /\ filters[1].z1 # filters[2].z1
    /\ filters[2].z2 # Z(0)
    /\ samples # block

\* a call with zero bands has returned from a block that is not silent
C13_ZeroBands ==
    /\ fn = "equalizer"
    /\ status = "returned"
    /\ args.bands = <<>>
    /\ \E k \in 1..Len(block) : block[k] # Z(0)

\* C1 for compressor: a signal delivered as two consecutive blocks comes out
\* as from one call on the whole signal (the gain is carried over the block
\* boundary).  The code starts every call at gain = 1.0 (fx.rs:48).
C1_CompressorBlocks ==
    (fn = "compressor" /\ status = "returned" /\ rest = <<>>)
        => \A k \in 1..Len(signal) :
              out[k] = RMul(signal[k], GainAt(signal, k, args))

\* C1 for equalizer: the same, the filters' z1 and z2 being carried over the
\* block boundary.  The code builds new filters in every call (eq.rs:8-11).
C1_EqualizerBlocks ==
    (fn = "equalizer" /\ status = "returned" /\ rest = <<>>)
        => \A k \in 1..Len(signal) :
              out[k] = BandOutput(signal, k, Len(args.bands), args)

=============================================================================
